---- MODULE Spec2Model ----
(***************************************************************************)
(* A model of the region-location and RPC-routing core of the gohbase      *)
(* client (src/client.go): the two caches (keyRegionCache over a b.Tree,   *)
(* regionClientCache over a map), getRegion / clientFor / queueRPC /       *)
(* sendRPC, locateRegion / locateMeta / discoverRegion / addRegionToCache  *)
(* and Scan.                                                               *)
(*                                                                         *)
(* Byte strings are sequences of byte values (ASCII codes); pointers are   *)
(* addresses in a heap (infos, conns), NIL being the nil pointer.           *)
(***************************************************************************)
EXTENDS Integers, Sequences, FiniteSets, TLC

VARIABLES
    regions,     \* Client.regions.regions: the b.Tree, as its in-order item sequence
    krcLock,     \* Client.regions.m: NIL or the goroutine holding it
    clients,     \* Client.clients.clients: map[*region.Info]*region.Client
    rccLock,     \* Client.clients.m: NIL or the goroutine holding it
    metaClient,  \* Client.metaClient
    metaWrites,  \* every write to Client.metaClient so far, in order (the field is unsynchronised)
    view,        \* per goroutine: the oldest write of metaWrites it may still read
    krcView,     \* the writes of metaWrites ordered before the last Unlock of regions.m
    rccView,     \* the writes of metaWrites ordered before the last Unlock of clients.m
    infos,       \* heap of region.Info objects: address -> object
    conns,       \* heap of region.Client objects: address -> its kind, the
                 \* goroutine and the operation of it that constructed it,
                 \* and the region it was constructed for; one object per
                 \* construction
    allocs,      \* per goroutine: the objects its current operation has
                 \* allocated in each heap
    pc,          \* per goroutine: where it is
    op,          \* per goroutine: the public operation it runs ("none", "call", "scan")
    ops,         \* per goroutine: operations started so far
    rpc,         \* per goroutine: the hrpc.Call being sent
    reg,         \* per goroutine: queueRPC's / discoverRegion's reg
    client,      \* per goroutine: queueRPC's / discoverRegion's client
    found,       \* per goroutine: what keyRegionCache.get returned
    metaResp,    \* per goroutine: what metaClient.SendRPC returned
    addr,        \* per goroutine: discoverRegion's host and port
    sent,        \* per goroutine: the connection the call was queued on (NIL: none)
    resch,       \* per goroutine: the call's result channel (<<>> or <<result>>)
    ctxDone,     \* per goroutine: rpc.Context().Done() has fired
    ret,         \* per goroutine: what sendRPC returned
    scan,        \* per goroutine: Scan's arguments and locals
    scanners,    \* region servers: open scanners, id -> rows not yet returned
    out          \* per goroutine: what the public operation returned

vars == <<regions, krcLock, clients, rccLock, metaClient, metaWrites, view, krcView,
          rccView, infos, conns, allocs,
          pc, op, ops, rpc, reg, client, found, metaResp, addr, sent, resch,
          ctxDone, ret, scan, scanners, out>>

(***************************************************************************)
(* Bounds of the model.                                                    *)
(***************************************************************************)
\* goroutines calling into the client concurrently
NumThreads == 2
\* public operations each goroutine starts
MaxOps == 2
\* rows a region server returns in one scan batch, at most
MaxBatch == 2
\* length of the info:server values enumerated for discoverRegion
MaxServerLen == 8
\* entries put into the key -> region cache when it is exercised alone
MaxPuts == 3
\* objects of one kind that one operation allocates
MaxAllocs == 4
\* public operations the goroutines start in all
MaxStarted == 3

Threads == 1..NumThreads

(***************************************************************************)
(* Byte strings.                                                           *)
(***************************************************************************)
NIL == 0

Comma == 44
Colon == 58

Min(a, b) == IF a < b THEN a ELSE b

\* bytes.Compare: byte-lexicographic, a proper prefix sorting first
BytesCompare(a, b) ==
    LET n == Min(Len(a), Len(b))
        d == {i \in 1..n : a[i] # b[i]}
    IN  IF d = {}
        THEN (IF Len(a) < Len(b) THEN -1 ELSE IF Len(a) > Len(b) THEN 1 ELSE 0)
        ELSE LET i == CHOOSE j \in d : \A k \in d : j <= k
             IN  IF a[i] < b[i] THEN -1 ELSE 1

\* region.CompareGeneric, the order of the b.Tree
CompareGeneric(a, b) == BytesCompare(a, b)

\* "hbase:meta"
metaTableName == <<104, 98, 97, 115, 101, 58, 109, 101, 116, 97>>

\* the package-level metaRegionInfo: "hbase:meta,,1", empty stop key
metaRegionInfo ==
    [Table |-> metaTableName,
     RegionName |-> metaTableName \o <<Comma, Comma, 49>>,
     StopKey |-> <<>>]

\* the address of the package-level metaRegionInfo
MetaInfoId == 1

\* the address of the next region.Info goroutine t allocates in its n-th
\* operation, having allocated k in it, and of the next region.Client it
\* constructs, having constructed k; an operation allocates at most
\* MaxAllocs of each
NewInfoId(t, n, k) == 1 + t + NumThreads * ((n - 1) * MaxAllocs + k)
NewConnId(t, n, k) == t + NumThreads * ((n - 1) * MaxAllocs + k)

createRegionSearchKey(table, key) == table \o <<Comma>> \o key \o <<Comma, Colon>>

(***************************************************************************)
(* The b.Tree of keyRegionCache and its enumerator.                        *)
(***************************************************************************)
\* Tree.Seek: an enumerator on the first item whose key is >= k (one past
\* the last item when there is none), and whether that item's key equals k
TreeSeek(tree, k) ==
    LET ge == {i \in 1..Len(tree) : CompareGeneric(tree[i].k, k) >= 0}
        i  == IF ge = {} THEN Len(tree) + 1
              ELSE CHOOSE j \in ge : \A m \in ge : j <= m
    IN  [e  |-> [i |-> i, err |-> FALSE],
         ok |-> (i <= Len(tree) /\ CompareGeneric(tree[i].k, k) = 0)]

\* Enumerator.Prev: the current item, moving to the previous one; io.EOF
\* (which sticks) when there is no current item
EnumPrev(tree, e) ==
    IF e.err \/ e.i < 1 \/ e.i > Len(tree)
    THEN [k |-> <<>>, v |-> NIL, err |-> TRUE, e |-> [i |-> e.i, err |-> TRUE]]
    ELSE [k |-> tree[e.i].k, v |-> tree[e.i].v, err |-> FALSE,
          e |-> [i |-> e.i - 1, err |-> FALSE]]

\* Tree.Put with an updater that always writes: insert or overwrite,
\* keeping the items in key order; old is the value replaced (NIL if none)
TreePut(tree, k, v) ==
    LET eq == {i \in 1..Len(tree) : CompareGeneric(tree[i].k, k) = 0}
        lt == {i \in 1..Len(tree) : CompareGeneric(tree[i].k, k) < 0}
        n  == Cardinality(lt)
    IN  IF eq # {}
        THEN LET i == CHOOSE j \in eq : TRUE
             IN  [tree |-> [tree EXCEPT ![i] = [k |-> k, v |-> v]], old |-> tree[i].v]
        ELSE [tree |-> SubSeq(tree, 1, n) \o <<[k |-> k, v |-> v]>>
                         \o SubSeq(tree, n + 1, Len(tree)),
              old |-> NIL]

\* keyRegionCache.get without its "past the end of the tree" branch
krcGetNoLast(tree, key) ==
    LET s  == TreeSeek(tree, key)
        p1 == EnumPrev(tree, s.e)
        p2 == EnumPrev(tree, p1.e)
        r  == IF ~s.ok
              THEN [k |-> p2.k, v |-> p2.v, err |-> p2.err]
              ELSE [k |-> p1.k, v |-> p1.v, err |-> p1.err]
    IN  IF r.err THEN [k |-> <<>>, v |-> NIL] ELSE [k |-> r.k, v |-> r.v]

\* keyRegionCache.get between Lock and Unlock, and its return
krcGet(tree, key) ==
    LET s  == TreeSeek(tree, key)
        p1 == EnumPrev(tree, s.e)
        p2 == EnumPrev(tree, p1.e)
        r  == IF p1.err /\ Len(tree) > 0
              THEN [k |-> tree[Len(tree)].k, v |-> tree[Len(tree)].v, err |-> FALSE]
              ELSE IF ~s.ok
                   THEN [k |-> p2.k, v |-> p2.v, err |-> p2.err]
                   ELSE [k |-> p1.k, v |-> p1.v, err |-> p1.err]
    IN  IF r.err THEN [k |-> <<>>, v |-> NIL] ELSE [k |-> r.k, v |-> r.v]

\* isCacheKeyForTable: "panic" is the index out of range of cacheKey[i]
isCacheKeyForTable(table, cacheKey) ==
    LET diff == {i \in 1..Len(table) : i > Len(cacheKey) \/ table[i] # cacheKey[i]}
        i    == CHOOSE j \in diff : \A m \in diff : j <= m
    IN  IF diff # {}
        THEN (IF i > Len(cacheKey) THEN "panic" ELSE "false")
        ELSE IF Len(table) + 1 > Len(cacheKey) THEN "panic"
             ELSE IF cacheKey[Len(table) + 1] = Comma THEN "true" ELSE "false"

\* getRegion comparing the key with the stop key by > instead of >=
getRegionCheckInclusiveStop(heap, table, key, f) ==
    IF f.v = NIL THEN [reg |-> NIL, panic |-> FALSE]
    ELSE LET c == isCacheKeyForTable(table, f.k)
         IN  IF c = "panic" THEN [reg |-> NIL, panic |-> TRUE]
             ELSE IF c = "false" THEN [reg |-> NIL, panic |-> FALSE]
             ELSE IF Len(heap[f.v].StopKey) # 0
                     /\ BytesCompare(key, heap[f.v].StopKey) > 0
                  THEN [reg |-> NIL, panic |-> FALSE]
                  ELSE [reg |-> f.v, panic |-> FALSE]

\* getRegion after c.regions.get returned f: the region, NIL, or a panic
getRegionCheck(heap, table, key, f) ==
    IF f.v = NIL THEN [reg |-> NIL, panic |-> FALSE]
    ELSE LET c == isCacheKeyForTable(table, f.k)
         IN  IF c = "panic" THEN [reg |-> NIL, panic |-> TRUE]
             ELSE IF c = "false" THEN [reg |-> NIL, panic |-> FALSE]
             ELSE IF Len(heap[f.v].StopKey) # 0
                     /\ BytesCompare(key, heap[f.v].StopKey) >= 0
                  THEN [reg |-> NIL, panic |-> FALSE]
                  ELSE [reg |-> f.v, panic |-> FALSE]

\* getRegion as one call (no other goroutine running)
getRegion(tree, heap, table, key) ==
    IF table = metaTableName THEN [reg |-> MetaInfoId, panic |-> FALSE]
    ELSE getRegionCheck(heap, table, key, krcGet(tree, createRegionSearchKey(table, key)))

(***************************************************************************)
(* discoverRegion's parsing of the info:server value.                      *)
(***************************************************************************)
\* bytes.IndexByte, 0-based, -1 when c does not occur
IndexByte(s, c) ==
    LET at == {i \in 1..Len(s) : s[i] = c}
    IN  IF at = {} THEN -1 ELSE (CHOOSE j \in at : \A m \in at : j <= m) - 1

IsDigit(b) == b >= 48 /\ b <= 57

RECURSIVE ParseUintLoop(_, _)
\* the loop of strconv.ParseUint over the bytes s, n being the value of the
\* bytes before them: it returns at the first byte that is not a digit (a
\* syntax error) or that takes the value above 2^16 - 1 (a range error)
ParseUintLoop(s, n) ==
    IF s = <<>> THEN [err |-> "nil", val |-> n]
    ELSE IF ~IsDigit(Head(s)) THEN [err |-> "ParseUint: invalid syntax", val |-> 0]
    ELSE IF n * 10 + (Head(s) - 48) > 65535
    THEN [err |-> "ParseUint: value out of range", val |-> 65535]
    ELSE ParseUintLoop(Tail(s), n * 10 + (Head(s) - 48))

\* strconv.ParseUint(s, 10, 16): a syntax error for "", else the loop
ParseUint16(s) ==
    IF s = <<>> THEN [err |-> "ParseUint: invalid syntax", val |-> 0]
    ELSE ParseUintLoop(s, 0)

NoAddr == [host |-> <<>>, port |-> 0]

\* case "server" with the test colon < 0 instead of colon < 1
parseServerColonFirst(value, old) ==
    IF Len(value) = 0 THEN [err |-> "nil", a |-> old]
    ELSE LET colon == IndexByte(value, Colon)
             p == ParseUint16(SubSeq(value, colon + 2, Len(value)))
         IN  IF colon < 0 THEN [err |-> "broken meta", a |-> old]
             ELSE IF p.err # "nil" THEN [err |-> p.err, a |-> old]
             ELSE [err |-> "nil",
                   a |-> [host |-> SubSeq(value, 1, colon), port |-> p.val]]

\* case "server" of discoverRegion's loop: the (host, port) after the cell,
\* or the error returned
parseServer(value, old) ==
    IF Len(value) = 0 THEN [err |-> "nil", a |-> old]
    ELSE LET colon == IndexByte(value, Colon)
             p == ParseUint16(SubSeq(value, colon + 2, Len(value)))
         IN  IF colon < 1 THEN [err |-> "broken meta", a |-> old]
             ELSE IF p.err # "nil" THEN [err |-> p.err, a |-> old]
             ELSE [err |-> "nil",
                   a |-> [host |-> SubSeq(value, 1, colon), port |-> p.val]]

NoInfo == [ok |-> FALSE, Table |-> <<>>, RegionName |-> <<>>, StopKey |-> <<>>]

RECURSIVE parseCells(_, _, _)
\* discoverRegion's loop over metaRow.Result.Cell: the decoded region (ok
\* FALSE: reg stays nil), host and port, or the first error
parseCells(cells, ri, a) ==
    IF cells = <<>> THEN [err |-> "nil", ri |-> ri, a |-> a]
    ELSE LET c == Head(cells)
         IN  IF c.q = "regioninfo"
             THEN (IF ~c.ri.ok THEN [err |-> "InfoFromCell", ri |-> NoInfo, a |-> a]
                   ELSE parseCells(Tail(cells), c.ri, a))
             ELSE IF c.q = "server"
             THEN LET s == parseServer(c.value, a)
                  IN  IF s.err # "nil" THEN [err |-> s.err, ri |-> NoInfo, a |-> a]
                      ELSE parseCells(Tail(cells), ri, s.a)
             ELSE parseCells(Tail(cells), ri, a)

\* discoverRegion up to the call of newRegion
discoverParse(resp) ==
    IF ~resp.hasResult THEN [err |-> "table not found", ri |-> NoInfo, a |-> NoAddr]
    ELSE parseCells(resp.cells, NoInfo, NoAddr)

(***************************************************************************)
(* The cluster the client talks to: one user table "t" of three regions    *)
(* ["", "d"), ["d", "m"), ["m", ""), two rows in each, and the meta table  *)
(* describing them.                                                        *)
(***************************************************************************)
\* "t"
TableT == <<116>>

\* key lies in [start, stop), an empty stop being no bound
InRange(key, start, stop) ==
    /\ BytesCompare(start, key) <= 0
    /\ (stop = <<>> \/ BytesCompare(key, stop) < 0)

RegionNameOf(table, start) == table \o <<Comma>> \o start \o <<Comma, 49>>

ClusterRegions ==
    {[start |-> <<>>,    ri |-> [ok |-> TRUE, Table |-> TableT,
                                 RegionName |-> RegionNameOf(TableT, <<>>),
                                 StopKey |-> <<100>>]],
     [start |-> <<100>>, ri |-> [ok |-> TRUE, Table |-> TableT,
                                 RegionName |-> RegionNameOf(TableT, <<100>>),
                                 StopKey |-> <<109>>]],
     [start |-> <<109>>, ri |-> [ok |-> TRUE, Table |-> TableT,
                                 RegionName |-> RegionNameOf(TableT, <<109>>),
                                 StopKey |-> <<>>]]}

\* rows "a", "b" | "e", "f" | "n", "o"
ClusterRows == {<<97>>, <<98>>, <<101>>, <<102>>, <<110>>, <<111>>}

\* "h:7", a well-formed info:server value
GoodServer == <<104, Colon, 55>>

Cell(q, ri, value) == [q |-> q, ri |-> ri, value |-> value]

MetaError == [err |-> "RemoteFailure", hasResult |-> FALSE, cells |-> <<>>]
MetaNotFound == [err |-> "nil", hasResult |-> FALSE, cells |-> <<>>]
MetaRow(cells) == [err |-> "nil", hasResult |-> TRUE, cells |-> cells]

\* the meta row at or before metaKey, if any
MetaGetBefore(metaKey) ==
    LET le == {r \in ClusterRegions : BytesCompare(r.ri.RegionName, metaKey) <= 0}
    IN  {r \in le : \A q \in le : BytesCompare(q.ri.RegionName, r.ri.RegionName) <= 0}

\* what the meta connection may answer to the query for metaKey: an error,
\* no row, the row, or the row with a column missing, undecodable or with
\* an empty or malformed info:server
MetaAnswers(metaKey) ==
    {MetaError}
    \cup (IF MetaGetBefore(metaKey) = {} THEN {MetaNotFound} ELSE {})
    \cup UNION {
          {MetaRow(<<Cell("regioninfo", r.ri, <<>>), Cell("server", NoInfo, GoodServer)>>),
           MetaRow(<<Cell("regioninfo", r.ri, <<>>), Cell("server", NoInfo, <<>>)>>),
           MetaRow(<<Cell("regioninfo", r.ri, <<>>), Cell("server", NoInfo, <<104>>)>>),
           MetaRow(<<Cell("regioninfo", r.ri, <<>>)>>),
           MetaRow(<<Cell("server", NoInfo, GoodServer)>>),
           MetaRow(<<Cell("regioninfo", NoInfo, <<>>), Cell("server", NoInfo, GoodServer)>>)}
          : r \in MetaGetBefore(metaKey)}

(***************************************************************************)
(* Calls and results.                                                      *)
(***************************************************************************)
NoMsg == [rows |-> <<>>, id |-> 0]
Result(msg, err) == [msg |-> msg, err |-> err]
NoResult == Result(NoMsg, "none")

\* an hrpc.Call before SetRegion
NewCall(kind, table, key, startRow, stopRow, id) ==
    [kind |-> kind, table |-> table, key |-> key, startRow |-> startRow,
     stopRow |-> stopRow, id |-> id, regName |-> <<>>, regStop |-> <<>>,
     regSet |-> FALSE]
NoCall == NewCall("none", <<>>, <<>>, <<>>, <<>>, 0)

NoFound == [k |-> <<>>, v |-> NIL]
\* Scan's arguments and results, the call it waits for (phase), and two
\* records of its past: whether a call of it has returned an error (failed)
\* and the regions its scan-open calls were answered by (visited)
NoScan == [startRow |-> <<>>, stopRow |-> <<>>, results |-> <<>>, phase |-> "none",
           failed |-> FALSE, visited |-> <<>>]

Max(a, b) == IF a > b THEN a ELSE b

RECURSIVE Started(_)
\* the operations the goroutines of S have started
Started(S) ==
    IF S = {} THEN 0
    ELSE LET t == CHOOSE x \in S : TRUE IN ops[t] + Started(S \ {t})

\* no goroutine has panicked (an unrecovered panic ends the process)
Alive == \A t \in Threads : pc[t] # "panic"
At(t, p) == Alive /\ pc[t] = p

Init ==
    /\ regions = <<>>
    /\ krcLock = NIL
    /\ clients = <<>>
    /\ rccLock = NIL
    /\ metaClient = NIL
    /\ metaWrites = <<[by |-> NIL, val |-> NIL]>>
    /\ view = [t \in Threads |-> 1]
    /\ krcView = 1
    /\ rccView = 1
    /\ infos = (MetaInfoId :> metaRegionInfo)
    /\ conns = <<>>
    /\ allocs = [t \in Threads |-> [info |-> 0, conn |-> 0]]
    /\ pc = [t \in Threads |-> "idle"]
    /\ op = [t \in Threads |-> "none"]
    /\ ops = [t \in Threads |-> 0]
    /\ rpc = [t \in Threads |-> NoCall]
    /\ reg = [t \in Threads |-> NIL]
    /\ client = [t \in Threads |-> NIL]
    /\ found = [t \in Threads |-> NoFound]
    /\ metaResp = [t \in Threads |-> MetaNotFound]
    /\ addr = [t \in Threads |-> NoAddr]
    /\ sent = [t \in Threads |-> NIL]
    /\ resch = [t \in Threads |-> <<>>]
    /\ ctxDone = [t \in Threads |-> FALSE]
    /\ ret = [t \in Threads |-> NoResult]
    /\ scan = [t \in Threads |-> NoScan]
    /\ scanners = <<>>
    /\ out = [t \in Threads |-> NoResult]

caches == <<regions, clients, infos, conns, allocs>>
locks == <<krcLock, rccLock, krcView, rccView>>
meta == <<metaClient, metaWrites>>
locals == <<reg, client, found, metaResp, addr>>
call == <<rpc, sent, resch, ret>>
public == <<op, ops, scan, scanners, out>>

\* the locals of queueRPC, locateRegion and discoverRegion are dead
Forget(t) ==
    /\ reg' = [reg EXCEPT ![t] = NIL]
    /\ client' = [client EXCEPT ![t] = NIL]
    /\ found' = [found EXCEPT ![t] = NoFound]
    /\ metaResp' = [metaResp EXCEPT ![t] = MetaNotFound]
    /\ addr' = [addr EXCEPT ![t] = NoAddr]

\* sendRPC returns (nil, err) because queueRPC failed
Fail(t, err) ==
    /\ pc' = [pc EXCEPT ![t] = "ret"]
    /\ ret' = [ret EXCEPT ![t] = Result(NoMsg, err)]
    /\ Forget(t)

(***************************************************************************)
(* queueRPC and sendRPC, one action per access to shared state or call of  *)
(* a collaborator.                                                         *)
(***************************************************************************)
\* Get (and CheckTable, Put, Delete, Append, Increment): build the call and
\* enter sendRPC
CallStart(t, table, key) ==
    /\ At(t, "idle")
    /\ ops[t] < MaxOps
    /\ Started(Threads) < MaxStarted
    /\ op' = [op EXCEPT ![t] = "call"]
    /\ ops' = [ops EXCEPT ![t] = @ + 1]
    /\ rpc' = [rpc EXCEPT ![t] = NewCall("get", table, key, <<>>, <<>>, 0)]
    /\ sent' = [sent EXCEPT ![t] = NIL]
    /\ resch' = [resch EXCEPT ![t] = <<>>]
    /\ ret' = [ret EXCEPT ![t] = NoResult]
    /\ ctxDone' = [ctxDone EXCEPT ![t] = FALSE]
    /\ pc' = [pc EXCEPT ![t] = "getRegion"]
    /\ UNCHANGED <<caches, locks, meta, view, locals, scan, scanners, out>>

\* getRegion up to c.regions.get's Unlock: the meta table's fixed region, or
\* the Lock and the floor lookup of the search key
GetRegion(t) ==
    /\ At(t, "getRegion")
    /\ IF rpc[t].table = metaTableName
       THEN /\ reg' = [reg EXCEPT ![t] = MetaInfoId]
            /\ pc' = [pc EXCEPT ![t] = "clientFor"]
            /\ UNCHANGED <<krcLock, found, view>>
       ELSE /\ krcLock = NIL
            /\ krcLock' = t
            /\ view' = [view EXCEPT ![t] = Max(@, krcView)]
            /\ found' = [found EXCEPT ![t] =
                           krcGet(regions, createRegionSearchKey(rpc[t].table, rpc[t].key))]
            /\ pc' = [pc EXCEPT ![t] = "krcGetUnlock"]
            /\ UNCHANGED reg
    /\ UNCHANGED <<caches, rccLock, krcView, rccView, meta, client, metaResp, addr,
                   call, ctxDone, public>>

\* c.regions.get's Unlock and the rest of getRegion
KrcGetUnlock(t) ==
    /\ At(t, "krcGetUnlock")
    /\ krcLock' = NIL
    /\ krcView' = Max(krcView, view[t])
    /\ LET r == getRegionCheck(infos, rpc[t].table, rpc[t].key, found[t])
       IN  /\ reg' = [reg EXCEPT ![t] = r.reg]
           /\ pc' = [pc EXCEPT ![t] = IF r.panic THEN "panic"
                                      ELSE IF r.reg # NIL THEN "clientFor"
                                      ELSE "locateRegion"]
    /\ found' = [found EXCEPT ![t] = NoFound]
    /\ UNCHANGED <<caches, rccLock, rccView, meta, view, client, metaResp, addr,
                   call, ctxDone, public>>

\* a clientFor whose registry is keyed by the region's name instead of the
\* identity of the region.Info: it returns a connection registered for any
\* region.Info of that name
ClientForByName(t) ==
    /\ At(t, "clientFor")
    /\ IF reg[t] = MetaInfoId
       THEN /\ \E i \in view[t]..Len(metaWrites) :
                 /\ client' = [client EXCEPT ![t] = metaWrites[i].val]
                 /\ view' = [view EXCEPT ![t] = i]
            /\ pc' = [pc EXCEPT ![t] = "queue"]
            /\ UNCHANGED rccLock
       ELSE /\ rccLock = NIL
            /\ rccLock' = t
            /\ view' = [view EXCEPT ![t] = Max(@, rccView)]
            /\ \E r \in {i \in DOMAIN clients \ {NIL} :
                           infos[i].RegionName = infos[reg[t]].RegionName} :
                 client' = [client EXCEPT ![t] = clients[r]]
            /\ pc' = [pc EXCEPT ![t] = "rccGetUnlock"]
    /\ UNCHANGED <<caches, krcLock, krcView, rccView, meta, reg, found, metaResp, addr,
                   call, ctxDone, public>>

\* clientFor: the unsynchronised read of c.metaClient, or the Lock and
\* lookup of c.clients.get
ClientFor(t) ==
    /\ At(t, "clientFor")
    /\ IF reg[t] = MetaInfoId
       THEN /\ \E i \in view[t]..Len(metaWrites) :
                 /\ client' = [client EXCEPT ![t] = metaWrites[i].val]
                 /\ view' = [view EXCEPT ![t] = i]
            /\ pc' = [pc EXCEPT ![t] = "queue"]
            /\ UNCHANGED rccLock
       ELSE /\ rccLock = NIL
            /\ rccLock' = t
            /\ view' = [view EXCEPT ![t] = Max(@, rccView)]
            /\ client' = [client EXCEPT ![t] =
                            IF reg[t] \in DOMAIN clients THEN clients[reg[t]] ELSE NIL]
            /\ pc' = [pc EXCEPT ![t] = "rccGetUnlock"]
    /\ UNCHANGED <<caches, krcLock, krcView, rccView, meta, reg, found, metaResp, addr,
                   call, ctxDone, public>>

\* c.clients.get's Unlock
RccGetUnlock(t) ==
    /\ At(t, "rccGetUnlock")
    /\ rccLock' = NIL
    /\ rccView' = Max(rccView, view[t])
    /\ pc' = [pc EXCEPT ![t] = "queue"]
    /\ UNCHANGED <<caches, krcLock, krcView, meta, view, locals, call, ctxDone, public>>

\* locateRegion's test of c.metaClient, an unsynchronised read
LocateRegion(t) ==
    /\ At(t, "locateRegion")
    /\ \E i \in view[t]..Len(metaWrites) :
         /\ view' = [view EXCEPT ![t] = i]
         /\ pc' = [pc EXCEPT ![t] =
                     IF metaWrites[i].val = NIL THEN "locateMeta" ELSE "metaSend"]
    /\ UNCHANGED <<caches, locks, meta, locals, call, ctxDone, public>>

\* locateMeta: zk.LocateMeta returns, with an error or an address
LocateMetaZk(t) ==
    /\ At(t, "locateMeta")
    /\ \E ok \in BOOLEAN :
         IF ok THEN /\ pc' = [pc EXCEPT ![t] = "metaNewClient"]
                    /\ UNCHANGED <<ret, locals>>
         ELSE Fail(t, "zk")
    /\ UNCHANGED <<caches, locks, meta, view, rpc, sent, resch, ctxDone, public>>

\* locateMeta: region.NewClient returns and both its results are assigned,
\* the connection (nil on error) to c.metaClient
LocateMetaConnect(t) ==
    /\ At(t, "metaNewClient")
    /\ allocs[t].conn < MaxAllocs
    /\ \E ok \in BOOLEAN :
         LET c == IF ok THEN NewConnId(t, ops[t], allocs[t].conn) ELSE NIL
         IN  /\ conns' = IF ok
                         THEN (c :> [kind |-> "meta", by |-> t, call |-> ops[t],
                                     reg |-> MetaInfoId]) @@ conns
                         ELSE conns
             /\ allocs' = IF ok THEN [allocs EXCEPT ![t].conn = @ + 1] ELSE allocs
             /\ metaClient' = c
             /\ metaWrites' = Append(metaWrites, [by |-> t, val |-> c])
             /\ view' = [view EXCEPT ![t] = Len(metaWrites) + 1]
             /\ IF ok THEN /\ pc' = [pc EXCEPT ![t] = "metaSend"]
                           /\ UNCHANGED <<ret, locals>>
                ELSE Fail(t, "NewClient")
    /\ UNCHANGED <<regions, clients, infos, locks, rpc, sent, resch, ctxDone, public>>

\* locateRegion: c.metaClient.SendRPC is called on the value read from the
\* unsynchronised field; a nil connection panics
MetaSend(t) ==
    /\ At(t, "metaSend")
    /\ \E i \in view[t]..Len(metaWrites) :
         /\ view' = [view EXCEPT ![t] = i]
         /\ pc' = [pc EXCEPT ![t] = IF metaWrites[i].val = NIL THEN "panic" ELSE "metaWait"]
    /\ UNCHANGED <<caches, locks, meta, locals, call, ctxDone, public>>

\* the meta connection answers the query (it need not)
MetaRespond(t) ==
    /\ At(t, "metaWait")
    /\ \E a \in MetaAnswers(createRegionSearchKey(rpc[t].table, rpc[t].key)) :
         metaResp' = [metaResp EXCEPT ![t] = a]
    /\ pc' = [pc EXCEPT ![t] = "discover"]
    /\ UNCHANGED <<caches, locks, meta, view, reg, client, found, addr, call, ctxDone,
                   public>>

\* locateRegion after SendRPC and discoverRegion up to the call of newRegion
Discover(t) ==
    /\ At(t, "discover")
    /\ allocs[t].info < MaxAllocs
    /\ LET p == discoverParse(metaResp[t])
       IN  IF metaResp[t].err # "nil"
           THEN Fail(t, metaResp[t].err) /\ UNCHANGED <<infos, allocs>>
           ELSE IF p.err # "nil"
           THEN Fail(t, p.err) /\ UNCHANGED <<infos, allocs>>
           ELSE /\ infos' = IF p.ri.ok
                            THEN (NewInfoId(t, ops[t], allocs[t].info) :>
                                    [Table |-> p.ri.Table,
                                     RegionName |-> p.ri.RegionName,
                                     StopKey |-> p.ri.StopKey]) @@ infos
                            ELSE infos
                /\ allocs' = IF p.ri.ok THEN [allocs EXCEPT ![t].info = @ + 1] ELSE allocs
                /\ reg' = [reg EXCEPT ![t] =
                             IF p.ri.ok THEN NewInfoId(t, ops[t], allocs[t].info) ELSE NIL]
                /\ addr' = [addr EXCEPT ![t] = p.a]
                /\ metaResp' = [metaResp EXCEPT ![t] = MetaNotFound]
                /\ pc' = [pc EXCEPT ![t] = "newRegion"]
                /\ UNCHANGED <<ret, client, found>>
    /\ UNCHANGED <<regions, clients, conns, locks, meta, view, rpc, sent, resch, ctxDone,
                   public>>

\* discoverRegion: newRegion(host, port) returns a connection or an error
\* (the region.Info just decoded is then unreachable, and collected)
NewRegion(t) ==
    /\ At(t, "newRegion")
    /\ allocs[t].conn < MaxAllocs
    /\ \E ok \in BOOLEAN :
         IF ok
         THEN /\ conns' = (NewConnId(t, ops[t], allocs[t].conn) :>
                                 [kind |-> "region", by |-> t, call |-> ops[t],
                                  reg |-> reg[t]]) @@ conns
              /\ allocs' = [allocs EXCEPT ![t].conn = @ + 1]
              /\ client' = [client EXCEPT ![t] = NewConnId(t, ops[t], allocs[t].conn)]
              /\ pc' = [pc EXCEPT ![t] = "rccPut"]
              /\ UNCHANGED <<ret, reg, found, metaResp, addr, infos>>
         ELSE /\ Fail(t, "newRegion")
              /\ infos' = [i \in DOMAIN infos \ {reg[t]} |-> infos[i]]
              /\ UNCHANGED <<conns, allocs>>
    /\ UNCHANGED <<regions, clients, locks, meta, view, rpc, sent, resch, ctxDone,
                   public>>

\* a c.clients.put that locks and stores nothing
RccPutNothing(t) ==
    /\ At(t, "rccPut")
    /\ rccLock = NIL
    /\ rccLock' = t
    /\ view' = [view EXCEPT ![t] = Max(@, rccView)]
    /\ pc' = [pc EXCEPT ![t] = "rccPutUnlock"]
    /\ UNCHANGED <<regions, clients, infos, conns, allocs, krcLock, krcView, rccView, meta,
                   locals, call, ctxDone, public>>

\* addRegionToCache, step 1: c.clients.put up to its Unlock
RccPut(t) ==
    /\ At(t, "rccPut")
    /\ rccLock = NIL
    /\ rccLock' = t
    /\ view' = [view EXCEPT ![t] = Max(@, rccView)]
    /\ clients' = (reg[t] :> client[t]) @@ clients
    /\ pc' = [pc EXCEPT ![t] = "rccPutUnlock"]
    /\ UNCHANGED <<regions, infos, conns, allocs, krcLock, krcView, rccView, meta, locals,
                   call, ctxDone, public>>

\* a c.clients.put that returns without Unlock
RccPutUnlockKeeping(t) ==
    /\ At(t, "rccPutUnlock")
    /\ pc' = [pc EXCEPT ![t] = IF reg[t] = NIL THEN "panic" ELSE "krcPut"]
    /\ UNCHANGED <<caches, locks, meta, view, locals, call, ctxDone, public>>

\* c.clients.put's Unlock, then reg.RegionName is evaluated for step 2: a
\* nil reg panics
RccPutUnlock(t) ==
    /\ At(t, "rccPutUnlock")
    /\ rccLock' = NIL
    /\ rccView' = Max(rccView, view[t])
    /\ pc' = [pc EXCEPT ![t] = IF reg[t] = NIL THEN "panic" ELSE "krcPut"]
    /\ UNCHANGED <<caches, krcLock, krcView, meta, view, locals, call, ctxDone, public>>

\* addRegionToCache, step 2: c.regions.put up to its Unlock
KrcPut(t) ==
    /\ At(t, "krcPut")
    /\ krcLock = NIL
    /\ krcLock' = t
    /\ view' = [view EXCEPT ![t] = Max(@, krcView)]
    /\ regions' = TreePut(regions, infos[reg[t]].RegionName, reg[t]).tree
    /\ pc' = [pc EXCEPT ![t] = "krcPutUnlock"]
    /\ UNCHANGED <<clients, infos, conns, allocs, rccLock, krcView, rccView, meta, locals,
                   call, ctxDone, public>>

\* c.regions.put's Unlock; discoverRegion and locateRegion return
KrcPutUnlock(t) ==
    /\ At(t, "krcPutUnlock")
    /\ krcLock' = NIL
    /\ krcView' = Max(krcView, view[t])
    /\ pc' = [pc EXCEPT ![t] = "queue"]
    /\ UNCHANGED <<caches, rccLock, rccView, meta, view, locals, call, ctxDone, public>>

\* a queueRPC that hands the call to the connection without rpc.SetRegion
QueueUnstamped(t) ==
    /\ At(t, "queue")
    /\ IF client[t] = NIL
       THEN /\ pc' = [pc EXCEPT ![t] = "panic"]
            /\ UNCHANGED sent
       ELSE /\ sent' = [sent EXCEPT ![t] = client[t]]
            /\ pc' = [pc EXCEPT ![t] = "select"]
    /\ UNCHANGED <<caches, locks, meta, view, locals, rpc, resch, ret, ctxDone, public>>

\* queueRPC's last two statements: rpc.SetRegion, then client.QueueRPC,
\* which panics on a nil client
Queue(t) ==
    /\ At(t, "queue")
    /\ rpc' = [rpc EXCEPT ![t].regName = infos[reg[t]].RegionName,
                          ![t].regStop = infos[reg[t]].StopKey,
                          ![t].regSet = TRUE]
    /\ IF client[t] = NIL
       THEN /\ pc' = [pc EXCEPT ![t] = "panic"]
            /\ UNCHANGED sent
       ELSE /\ sent' = [sent EXCEPT ![t] = client[t]]
            /\ pc' = [pc EXCEPT ![t] = "select"]
    /\ UNCHANGED <<caches, locks, meta, view, locals, resch, ret, ctxDone, public>>

\* the connection writes the result of a Get to the call's result channel
\* (it need not)
Respond(t) ==
    /\ At(t, "select")
    /\ rpc[t].kind = "get"
    /\ resch[t] = <<>>
    /\ \E e \in {"nil", "RemoteFailure"} :
         resch' = [resch EXCEPT ![t] = <<Result(NoMsg, e)>>]
    /\ UNCHANGED <<caches, locks, meta, view, locals, rpc, sent, ret, pc, ctxDone, public>>

\* the call's deadline passes or its context is cancelled. The context is
\* read nowhere but in sendRPC's select, so a deadline that passed earlier,
\* or had passed when the call was built, is one that has passed when the
\* goroutine first blocks.
Cancel(t) ==
    /\ At(t, "select")
    /\ ~ctxDone[t]
    /\ ctxDone' = [ctxDone EXCEPT ![t] = TRUE]
    /\ UNCHANGED <<caches, locks, meta, view, locals, call, pc, public>>

\* the same while the goroutine is blocked in locateRegion's meta query
CancelInMetaQuery(t) ==
    /\ At(t, "metaWait")
    /\ ~ctxDone[t]
    /\ ctxDone' = [ctxDone EXCEPT ![t] = TRUE]
    /\ UNCHANGED <<caches, locks, meta, view, locals, call, pc, public>>

\* sendRPC's select: case res := <-resch
SelectResult(t) ==
    /\ At(t, "select")
    /\ resch[t] # <<>>
    /\ ret' = [ret EXCEPT ![t] = resch[t][1]]
    /\ resch' = [resch EXCEPT ![t] = <<>>]
    /\ pc' = [pc EXCEPT ![t] = "ret"]
    /\ Forget(t)
    /\ UNCHANGED <<caches, locks, meta, view, rpc, sent, ctxDone, public>>

\* a select without the case of the context
SelectDeadlineAbsent(t) ==
    /\ At(t, "select")
    /\ FALSE
    /\ UNCHANGED vars

\* sendRPC's select: case <-rpc.Context().Done()
SelectDeadline(t) ==
    /\ At(t, "select")
    /\ ctxDone[t]
    /\ ret' = [ret EXCEPT ![t] = Result(NoMsg, "ErrDeadline")]
    /\ pc' = [pc EXCEPT ![t] = "ret"]
    /\ Forget(t)
    /\ UNCHANGED <<caches, locks, meta, view, rpc, sent, resch, ctxDone, public>>

\* Get hands what sendRPC returned to its caller
CallReturn(t) ==
    /\ At(t, "ret")
    /\ op[t] = "call"
    /\ op' = [op EXCEPT ![t] = "none"]
    /\ pc' = [pc EXCEPT ![t] = "idle"]
    /\ rpc' = [rpc EXCEPT ![t] = NoCall]
    /\ sent' = [sent EXCEPT ![t] = NIL]
    /\ resch' = [resch EXCEPT ![t] = <<>>]
    /\ ret' = [ret EXCEPT ![t] = NoResult]
    /\ ctxDone' = [ctxDone EXCEPT ![t] = FALSE]
    /\ allocs' = [allocs EXCEPT ![t] = [info |-> 0, conn |-> 0]]
    /\ UNCHANGED <<regions, clients, infos, conns, locks, meta, view, locals, ops, scan,
                   scanners, out>>

\* the steps of queueRPC and sendRPC
Route(t) ==
    \/ GetRegion(t) \/ KrcGetUnlock(t) \/ ClientFor(t) \/ RccGetUnlock(t)
    \/ LocateRegion(t) \/ LocateMetaZk(t) \/ LocateMetaConnect(t) \/ MetaSend(t)
    \/ MetaRespond(t) \/ Discover(t) \/ NewRegion(t)
    \/ RccPut(t) \/ RccPutUnlock(t) \/ KrcPut(t) \/ KrcPutUnlock(t)
    \/ Queue(t) \/ Cancel(t) \/ SelectResult(t) \/ SelectDeadline(t)

\* the keys of the calls issued: "a" and "n" of table "t", "x" of the meta table
Calls == {<<TableT, <<97>>>>, <<TableT, <<110>>>>, <<metaTableName, <<120>>>>}

Next ==
    \E t \in Threads :
        \/ \E c \in Calls : CallStart(t, c[1], c[2])
        \/ Route(t)
        \/ Respond(t)
        \/ CallReturn(t)

\* concurrent Gets
Spec == Init /\ [][Next]_vars

(***************************************************************************)
(* One goroutine under a fair scheduler.                                   *)
(***************************************************************************)
\* the steps the goroutine takes by itself: every statement of queueRPC,
\* sendRPC and Get that is not a wait for a connection's answer. The
\* select of sendRPC is one of them: it proceeds as soon as a case is ready.
Step(t) ==
    \/ GetRegion(t) \/ KrcGetUnlock(t) \/ ClientFor(t) \/ RccGetUnlock(t)
    \/ LocateRegion(t) \/ LocateMetaZk(t) \/ LocateMetaConnect(t) \/ MetaSend(t)
    \/ Discover(t) \/ NewRegion(t)
    \/ RccPut(t) \/ RccPutUnlock(t) \/ KrcPut(t) \/ KrcPutUnlock(t)
    \/ Queue(t) \/ SelectResult(t) \/ SelectDeadline(t) \/ CallReturn(t)

NextFair ==
    \/ \E c \in Calls : CallStart(1, c[1], c[2])
    \/ Route(1)
    \/ CancelInMetaQuery(1)
    \/ Respond(1)
    \/ CallReturn(1)

\* one goroutine issuing Gets: it keeps running, while the connections are
\* free never to answer and the caller free never to cancel
SpecFair == Init /\ [][NextFair]_vars /\ WF_vars(Step(1))

\* C3: sendRPC returns ErrDeadline only for a call whose context is done;
\* and when the connection never writes to the result channel, a call that
\* waits in sendRPC's select with its context done returns ErrDeadline.
C3_DeadlineReturns ==
    /\ [](\A t \in Threads :
            (pc[t] = "ret" /\ ret[t].err = "ErrDeadline") => ctxDone[t])
    /\ ([](resch[1] = <<>>))
         => ((pc[1] = "select" /\ ctxDone[1])
               ~> (pc[1] = "ret" /\ ret[1].err = "ErrDeadline" /\ ret[1].msg = NoMsg))

\* sendRPC has returned ErrDeadline for a call that was queued on a
\* connection, nothing having been written to its result channel
C3_Witness ==
    /\ pc[1] = "ret" /\ ret[1].err = "ErrDeadline"
    /\ ctxDone[1] /\ resch[1] = <<>>
    /\ rpc[1].regSet /\ sent[1] # NIL

\* C10: an operation whose context is done returns (or ends the process by
\* a panic), whatever the connections do.
C10_DeadlineBoundsBlocking ==
    \A t \in Threads : ctxDone[t] ~> (pc[t] \in {"ret", "idle", "panic"})

(***************************************************************************)
(* Properties of concurrent resolution.                                    *)
(***************************************************************************)
\* the region.Info objects the index holds
Indexed == {regions[i].v : i \in 1..Len(regions)}

\* C1: every region.Info in the index has a connection in the registry: a
\* discovery that is about to put its region into the index has put it
\* into the registry, and a resolution that found a region in the index
\* gets a connection from the registry.
C1_IndexedHasConnection ==
    /\ \A r \in Indexed : r \in DOMAIN clients /\ clients[r] # NIL
    /\ \A t \in Threads :
         /\ pc[t] \in {"krcPut", "krcPutUnlock"}
              => (reg[t] \in DOMAIN clients /\ clients[reg[t]] = client[t])
         /\ pc[t] = "rccGetUnlock" => client[t] # NIL

\* goroutine 1 has got the connection of a region it found in the index
\* while goroutine 2 is between its put into the registry and its put into
\* the index
C1_Witness ==
    /\ pc[1] = "rccGetUnlock" /\ reg[1] \in Indexed /\ client[1] # NIL
    /\ pc[2] = "krcPut" /\ reg[2] \in DOMAIN clients /\ reg[2] \notin Indexed

\* the connections goroutine t constructed for a region named name
BuiltFor(t, name) ==
    {c \in DOMAIN conns : /\ conns[c].kind = "region" /\ conns[c].by = t
                          /\ conns[c].reg \in DOMAIN infos
                          /\ infos[conns[c].reg].RegionName = name}

\* goroutine t has discovered the region named name and published it
Completed(t, name) ==
    \E c \in BuiltFor(t, name) :
        ~(pc[t] \in {"rccPut", "rccPutUnlock", "krcPut", "krcPutUnlock"}
            /\ reg[t] = conns[c].reg)

\* the name of the cluster's region that holds key
RegionNameFor(key) ==
    (CHOOSE cr \in ClusterRegions : InRange(key, cr.start, cr.ri.StopKey)).ri.RegionName

\* C2: a goroutine constructs at most one region connection in a call, so
\* two goroutines that resolve the same unseen key construct at most two;
\* once both have published, a resolution of that key is a cache hit on
\* the region.Info the index holds, whose registry entry is the connection
\* constructed for that very region.Info; and a resolution that hit the
\* cache gets the connection constructed for the region.Info it found.
C2_DuplicateDiscoveryIsConsistent ==
    /\ \A t \in Threads : \A n \in 1..MaxOps :
         Cardinality({c \in DOMAIN conns : /\ conns[c].kind = "region"
                                           /\ conns[c].by = t
                                           /\ conns[c].call = n}) <= 1
    /\ \A c \in Calls :
         (c[1] # metaTableName /\ \A t \in Threads : Completed(t, RegionNameFor(c[2])))
         => LET r == getRegion(regions, infos, c[1], c[2])
            IN  /\ ~r.panic /\ r.reg # NIL
                /\ r.reg \in Indexed
                /\ infos[r.reg].RegionName = RegionNameFor(c[2])
                /\ r.reg \in DOMAIN clients
                /\ clients[r.reg] \in DOMAIN conns
                /\ conns[clients[r.reg]].reg = r.reg
    /\ \A t \in Threads :
         (pc[t] = "rccGetUnlock" /\ client[t] # NIL)
         => /\ client[t] \in DOMAIN conns
            /\ conns[client[t]].reg = reg[t]

\* both goroutines have discovered and published the region of key "a",
\* and goroutine 1, resolving "a" again, has hit the region.Info goroutine
\* 2 put into the index and got the connection goroutine 2 constructed
C2_Witness ==
    /\ \A t \in Threads : Completed(t, RegionNameFor(<<97>>))
    /\ pc[1] = "rccGetUnlock" /\ rpc[1].key = <<97>>
    /\ reg[1] \in Indexed
    /\ client[1] \in BuiltFor(2, RegionNameFor(<<97>>))
    /\ conns[client[1]].reg = reg[1]

\* the meta connections locateMeta has established
MetaConns == {c \in DOMAIN conns : conns[c].kind = "meta"}

\* C13: locateMeta establishes the meta connection at most once, and an
\* established meta connection is not replaced by another bootstrap.
C13_MetaBootstrappedOnce ==
    /\ Cardinality(MetaConns) <= 1
    /\ \A i \in 1..Len(metaWrites) : \A j \in (i + 1)..Len(metaWrites) :
         metaWrites[i].val # NIL => metaWrites[j].val = metaWrites[i].val

\* C14: a goroutine holds the lock of the index only between the Lock and
\* the Unlock of one c.regions.get or put, the lock of the registry only
\* between those of one c.clients.get or put: never both, and neither
\* during the coordination-service lookup, a connection's construction,
\* the meta query or client.QueueRPC. A held lock is one its holder is
\* about to release, so no goroutine waits for a lock for ever.
C14_LocksHeldForOneAccess ==
    \A t \in Threads :
        /\ ~(krcLock = t /\ rccLock = t)
        /\ krcLock = t <=> pc[t] \in {"krcGetUnlock", "krcPutUnlock"}
        /\ rccLock = t <=> pc[t] \in {"rccGetUnlock", "rccPutUnlock"}
        /\ pc[t] \in {"locateMeta", "metaNewClient", "metaSend", "metaWait", "discover",
                      "newRegion", "queue", "select"}
             => (krcLock # t /\ rccLock # t)

\* goroutine 1 holds the lock of the index in a put while goroutine 2
\* holds the lock of the registry in a get
C14_Witness ==
    /\ krcLock = 1 /\ pc[1] = "krcPutUnlock"
    /\ rccLock = 2 /\ pc[2] = "rccGetUnlock"

\* C15: a call that was handed to a connection carries the region name and
\* the stop key of the region that connection was resolved for; and when
\* queueRPC returns before that (the resolution failed), sendRPC returns
\* the error with no message, the call's region fields are unset and the
\* call was handed to no connection.
C15_QueueAfterResolution ==
    /\ [](\A t \in Threads :
            sent[t] # NIL
            => /\ rpc[t].regSet
               /\ sent[t] \in DOMAIN conns
               /\ conns[sent[t]].reg \in DOMAIN infos
               /\ rpc[t].regName = infos[conns[sent[t]].reg].RegionName
               /\ rpc[t].regStop = infos[conns[sent[t]].reg].StopKey)
    /\ [][\A t \in Threads :
            (pc[t] \notin {"select", "ret", "idle"} /\ pc'[t] = "ret")
            => /\ ret'[t].err \notin {"nil", "none"} /\ ret'[t].msg = NoMsg
               /\ ~rpc'[t].regSet /\ rpc'[t].regName = <<>> /\ rpc'[t].regStop = <<>>
               /\ sent'[t] = NIL]_vars

\* the meta query of goroutine 1's call failed and sendRPC returned the
\* error with the call unstamped, while goroutine 2's call, stamped, has
\* been handed to a connection
C15_Witness ==
    /\ pc[1] = "ret" /\ ret[1].err = "RemoteFailure"
    /\ ~rpc[1].regSet /\ sent[1] = NIL
    /\ pc[2] = "select" /\ sent[2] # NIL /\ rpc[2].regSet
    /\ rpc[2].regName = RegionNameFor(rpc[2].key)

\* after the step, neither cache holds an entry that goroutine t's current
\* call made: no registry entry with a connection it constructed, no index
\* entry with a region.Info it allocated
NoEntryOfCall(t) ==
    /\ \A r \in DOMAIN clients' :
         ~(/\ clients'[r] \in DOMAIN conns'
           /\ conns'[clients'[r]].kind = "region"
           /\ conns'[clients'[r]].by = t
           /\ conns'[clients'[r]].call = ops'[t])
    /\ \A i \in 1..Len(regions') :
         regions'[i].v \notin {NewInfoId(t, ops'[t], k) : k \in 0..(MaxAllocs - 1)}

\* goroutine t's resolution ends with an error returned
EndsInError(t) == pc[t] \notin {"select", "ret", "idle", "panic"} /\ pc'[t] = "ret"

\* goroutine t's resolution ends with a panic
EndsInPanic(t) == pc[t] \notin {"select", "ret", "idle", "panic"} /\ pc'[t] = "panic"

\* the caches change by no step but a put of addRegionToCache
OnlyPutsWrite ==
    (regions' # regions \/ clients' # clients)
    => \E t \in Threads : \/ pc[t] = "rccPut" /\ pc'[t] = "rccPutUnlock"
                          \/ pc[t] = "krcPut" /\ pc'[t] = "krcPutUnlock"

\* a resolution that returns an error has put nothing into the caches
ErrorLeavesCaches ==
    [][/\ OnlyPutsWrite
       /\ \A t \in Threads :
            EndsInError(t) => (UNCHANGED <<regions, clients>> /\ NoEntryOfCall(t))]_vars

\* C19: a resolution that does not return success (it returns an error, or
\* it panics) has put nothing into the index or the registry: entries are
\* put only by a discovery that returns success.
C19_FailureLeavesCaches ==
    [][/\ OnlyPutsWrite
       /\ \A t \in Threads :
            (EndsInError(t) \/ EndsInPanic(t))
            => (UNCHANGED <<regions, clients>> /\ NoEntryOfCall(t))]_vars

\* C6: a call on the meta table is handed to the meta connection, which
\* is established first when it is not yet: client.QueueRPC is never
\* reached for such a call with a nil client.
C6_MetaCallHasConnection ==
    \A t \in Threads :
        (pc[t] = "queue" /\ rpc[t].table = metaTableName) => client[t] # NIL

(***************************************************************************)
(* Scan, and the region servers' side of a scanner.                        *)
(***************************************************************************)
RECURSIVE SortedRows(_)
\* the rows of a set in ascending byte order
SortedRows(S) ==
    IF S = {} THEN <<>>
    ELSE LET lo == CHOOSE r \in S : \A q \in S : BytesCompare(r, q) <= 0
         IN  <<lo>> \o SortedRows(S \ {lo})

\* what the server of the region named name holds of [startRow, stopRow)
RegionRows(name, startRow, stopRow) ==
    SortedRows({r \in ClusterRows :
                  /\ InRange(r, startRow, stopRow)
                  /\ \E cr \in ClusterRegions :
                       /\ cr.ri.RegionName = name
                       /\ InRange(r, cr.start, cr.ri.StopKey)})

\* Scan: the first iteration's NewScanStr and sendRPC
ScanStart(t, startRow, stopRow) ==
    /\ At(t, "idle")
    /\ ops[t] < MaxOps
    /\ Started(Threads) < MaxStarted
    /\ op' = [op EXCEPT ![t] = "scan"]
    /\ ops' = [ops EXCEPT ![t] = @ + 1]
    /\ scan' = [scan EXCEPT ![t] = [startRow |-> startRow, stopRow |-> stopRow,
                                    results |-> <<>>, phase |-> "open",
                                    failed |-> FALSE, visited |-> <<>>]]
    /\ rpc' = [rpc EXCEPT ![t] = NewCall("scanOpen", TableT, startRow, startRow, stopRow, 0)]
    /\ sent' = [sent EXCEPT ![t] = NIL]
    /\ resch' = [resch EXCEPT ![t] = <<>>]
    /\ ret' = [ret EXCEPT ![t] = NoResult]
    /\ out' = [out EXCEPT ![t] = NoResult]
    /\ ctxDone' = [ctxDone EXCEPT ![t] = FALSE]
    /\ pc' = [pc EXCEPT ![t] = "getRegion"]
    /\ UNCHANGED <<caches, locks, meta, view, locals, scanners>>

\* Scan returns (rows, err)
ScanReturn(t, rows, err, failed) ==
    /\ out' = [out EXCEPT ![t] = Result([rows |-> rows, id |-> 0], err)]
    /\ scan' = [scan EXCEPT ![t].phase = "done", ![t].failed = failed,
                            ![t].results = rows]
    /\ op' = [op EXCEPT ![t] = "none"]
    /\ pc' = [pc EXCEPT ![t] = "idle"]
    /\ rpc' = [rpc EXCEPT ![t] = NoCall]
    /\ sent' = [sent EXCEPT ![t] = NIL]
    /\ resch' = [resch EXCEPT ![t] = <<>>]
    /\ ret' = [ret EXCEPT ![t] = NoResult]
    /\ ctxDone' = [ctxDone EXCEPT ![t] = FALSE]
    /\ allocs' = [allocs EXCEPT ![t] = [info |-> 0, conn |-> 0]]

\* Scan sends the call c with the context of the scan
ScanSend(t, c, phase, results, visited, failed) ==
    /\ rpc' = [rpc EXCEPT ![t] = c]
    /\ scan' = [scan EXCEPT ![t].phase = phase, ![t].results = results,
                            ![t].visited = visited, ![t].failed = failed]
    /\ sent' = [sent EXCEPT ![t] = NIL]
    /\ resch' = [resch EXCEPT ![t] = <<>>]
    /\ ret' = [ret EXCEPT ![t] = NoResult]
    /\ pc' = [pc EXCEPT ![t] = "getRegion"]
    /\ UNCHANGED <<op, out, ctxDone, allocs>>

\* the rows of the response alone, those accumulated before them dropped
ScanAppendForgetting(results, rows) == rows

\* results = append(results, scanres.Results...)
ScanAppend(results, rows) == results \o rows

\* a Scan that closes the scanner after its first response, rows or not
ScanAfterFetchOneBatch(t) ==
    /\ At(t, "ret")
    /\ op[t] = "scan"
    /\ scan[t].phase \in {"open", "page"}
    /\ LET rows    == ScanAppend(scan[t].results, ret[t].msg.rows)
           visited == Append(scan[t].visited, rpc[t].regName)
       IN  IF ret[t].err # "nil"
           THEN ScanReturn(t, <<>>, ret[t].err, TRUE)
           ELSE ScanSend(t, NewCall("scanClose", rpc[t].table, rpc[t].key, <<>>, <<>>,
                                    ret[t].msg.id),
                         "close", rows, visited, FALSE)
    /\ UNCHANGED <<regions, clients, infos, conns, locks, meta, view, locals, ops, scanners>>

\* Scan after the sendRPC of a scan-open or of a fetch by scanner id: the
\* error returned, or the rows appended and the next fetch (rows came) or
\* the close of the scanner (none came) sent
ScanAfterFetch(t) ==
    /\ At(t, "ret")
    /\ op[t] = "scan"
    /\ scan[t].phase \in {"open", "page"}
    /\ LET rows    == ScanAppend(scan[t].results, ret[t].msg.rows)
           visited == IF scan[t].phase = "open"
                      THEN Append(scan[t].visited, rpc[t].regName)
                      ELSE scan[t].visited
       IN  IF ret[t].err # "nil"
           THEN ScanReturn(t, <<>>, ret[t].err, TRUE)
           ELSE IF Len(ret[t].msg.rows) # 0
           THEN ScanSend(t, NewCall("scanNext", rpc[t].table, rpc[t].key, <<>>, <<>>,
                                    ret[t].msg.id),
                         "page", rows, visited, FALSE)
           ELSE ScanSend(t, NewCall("scanClose", rpc[t].table, rpc[t].key, <<>>, <<>>,
                                    ret[t].msg.id),
                         "close", rows, visited, FALSE)
    /\ UNCHANGED <<regions, clients, infos, conns, locks, meta, view, locals, ops, scanners>>

\* a test that goes on when stopRow equals the region's stop key
ScanIsLastStrict(stopRow, regStop) ==
    \/ Len(regStop) = 0
    \/ (Len(stopRow) # 0 /\ BytesCompare(stopRow, regStop) < 0)

\* the test that ends Scan's loop, on the stop key stamped on the close call
ScanIsLast(stopRow, regStop) ==
    \/ Len(regStop) = 0
    \/ (Len(stopRow) # 0 /\ BytesCompare(stopRow, regStop) <= 0)

\* a Scan whose next iteration starts at the key of this one, not at the
\* stop key of the region
ScanAfterCloseSameKey(t) ==
    /\ At(t, "ret")
    /\ op[t] = "scan"
    /\ scan[t].phase = "close"
    /\ LET failed == scan[t].failed \/ ret[t].err # "nil"
       IN  IF ScanIsLast(scan[t].stopRow, rpc[t].regStop)
           THEN ScanReturn(t, scan[t].results, "nil", failed)
           ELSE ScanSend(t, NewCall("scanOpen", rpc[t].table, rpc[t].key,
                                    rpc[t].key, scan[t].stopRow, 0),
                         "open", scan[t].results, scan[t].visited, failed)
    /\ UNCHANGED <<regions, clients, infos, conns, locks, meta, view, locals, ops, scanners>>

\* Scan after the sendRPC of the close (whose results it does not read): the
\* return of the rows, or the scan-open of the next iteration
ScanAfterClose(t) ==
    /\ At(t, "ret")
    /\ op[t] = "scan"
    /\ scan[t].phase = "close"
    /\ LET failed == scan[t].failed \/ ret[t].err # "nil"
       IN  IF ScanIsLast(scan[t].stopRow, rpc[t].regStop)
           THEN ScanReturn(t, scan[t].results, "nil", failed)
           ELSE ScanSend(t, NewCall("scanOpen", rpc[t].table, rpc[t].regStop,
                                    rpc[t].regStop, scan[t].stopRow, 0),
                         "open", scan[t].results, scan[t].visited, failed)
    /\ UNCHANGED <<regions, clients, infos, conns, locks, meta, view, locals, ops, scanners>>

\* a region server answers a call of a scan (it need not): with an error,
\* or by opening a scanner on the call's region and range and returning its
\* first rows, returning the next rows of a scanner, or closing a scanner. A
\* scanner returns its rows in key order, at most MaxBatch at a time, and no
\* row exactly when none is left.
RespondScan(t) ==
    /\ At(t, "select")
    /\ rpc[t].kind \in {"scanOpen", "scanNext", "scanClose"}
    /\ resch[t] = <<>>
    /\ \/ /\ resch' = [resch EXCEPT ![t] = <<Result(NoMsg, "RemoteFailure")>>]
          /\ UNCHANGED scanners
       \/ /\ rpc[t].kind = "scanClose"
          /\ resch' = [resch EXCEPT ![t] = <<Result([rows |-> <<>>, id |-> rpc[t].id], "nil")>>]
          /\ scanners' = [scanners EXCEPT ![rpc[t].id].open = FALSE]
       \/ /\ rpc[t].kind \in {"scanOpen", "scanNext"}
          /\ LET id   == IF rpc[t].kind = "scanOpen" THEN Len(scanners) + 1 ELSE rpc[t].id
                 left == IF rpc[t].kind = "scanOpen"
                         THEN RegionRows(rpc[t].regName, rpc[t].startRow, rpc[t].stopRow)
                         ELSE scanners[id].left
             IN  \E n \in 0..MaxBatch :
                   /\ n <= Len(left)
                   /\ n = 0 <=> left = <<>>
                   /\ resch' = [resch EXCEPT ![t] =
                                  <<Result([rows |-> SubSeq(left, 1, n), id |-> id], "nil")>>]
                   /\ scanners' =
                        IF rpc[t].kind = "scanOpen"
                        THEN Append(scanners, [region |-> rpc[t].regName, open |-> TRUE,
                                               left |-> SubSeq(left, n + 1, Len(left))])
                        ELSE [scanners EXCEPT ![id].left = SubSeq(left, n + 1, Len(left))]
    /\ UNCHANGED <<caches, locks, meta, view, locals, rpc, sent, ret, pc, ctxDone, op, ops,
                   scan, out>>

\* the ranges scanned: "", "d", "e", "n"
ScanKeys == {<<>>, <<100>>, <<101>>, <<110>>}

NextScan ==
    \/ \E startRow \in ScanKeys, stopRow \in ScanKeys : ScanStart(1, startRow, stopRow)
    \/ Route(1)
    \/ RespondScan(1)
    \/ ScanAfterFetch(1)
    \/ ScanAfterClose(1)

\* one goroutine scanning
SpecScan == Init /\ [][NextScan]_vars

(***************************************************************************)
(* Properties of Scan.                                                     *)
(***************************************************************************)
\* the region of the cluster named name
RegionNamed(name) == CHOOSE cr \in ClusterRegions : cr.ri.RegionName = name

\* goroutine t's Scan has returned a nil error
ScanSucceeded(t) == scan[t].phase = "done" /\ out[t].err = "nil"

\* C4: over the regions of the cluster, which partition the key space, and
\* with servers that return a region's rows in key order batch by batch, a
\* Scan that returns no error, none of its calls having failed, returns
\* exactly the rows of [startRow, stopRow) (an empty stopRow being no
\* bound), each once and in ascending order, and has opened scanners on
\* consecutive regions in ascending order, the first of them the region
\* that contains startRow.
C4_ScanReturnsRange ==
    \A t \in Threads :
        (ScanSucceeded(t) /\ ~scan[t].failed)
        => /\ out[t].msg.rows =
                SortedRows({r \in ClusterRows : InRange(r, scan[t].startRow, scan[t].stopRow)})
           /\ Len(scan[t].visited) >= 1
           /\ LET first == RegionNamed(scan[t].visited[1])
              IN  InRange(scan[t].startRow, first.start, first.ri.StopKey)
           /\ \A i \in 1..(Len(scan[t].visited) - 1) :
                /\ RegionNamed(scan[t].visited[i]).ri.StopKey # <<>>
                /\ RegionNamed(scan[t].visited[i + 1]).start =
                      RegionNamed(scan[t].visited[i]).ri.StopKey

\* the scan of ["e", "n") has returned "e" and "f" after visiting the
\* regions ["d", "m") and ["m", "")
C4_Witness ==
    /\ ScanSucceeded(1) /\ ~scan[1].failed
    /\ scan[1].startRow = <<101>> /\ scan[1].stopRow = <<110>>
    /\ out[1].msg.rows = <<<<101>>, <<102>>>>
    /\ scan[1].visited = <<RegionNameOf(TableT, <<100>>), RegionNameOf(TableT, <<109>>)>>

\* the stop key of the region goroutine t's Scan opened last
LastStop(t) == RegionNamed(scan[t].visited[Len(scan[t].visited)]).ri.StopKey

\* C11: when the close of a region's scanner has returned, Scan returns its
\* rows if the stop key S of that region is empty or a non-empty stopRow is
\* <= S, and otherwise opens a scanner at S with the range [S, stopRow). So
\* no region after the first is opened at or above a non-empty stopRow, and
\* a Scan that returned rows has visited the region that ends the range.
C11_ScanContinuesFromStopKey ==
    /\ [][\A t \in Threads :
            (pc[t] = "ret" /\ op[t] = "scan" /\ scan[t].phase = "close"
               /\ (pc'[t] # "ret" \/ scan'[t].phase # "close"))
            => IF \/ LastStop(t) = <<>>
                  \/ (scan[t].stopRow # <<>>
                        /\ BytesCompare(scan[t].stopRow, LastStop(t)) <= 0)
               THEN /\ scan'[t].phase = "done"
                    /\ out'[t] = Result([rows |-> scan[t].results, id |-> 0], "nil")
               ELSE /\ scan'[t].phase = "open"
                    /\ rpc'[t].kind = "scanOpen"
                    /\ rpc'[t].key = LastStop(t)
                    /\ rpc'[t].startRow = LastStop(t)
                    /\ rpc'[t].stopRow = scan[t].stopRow]_vars
    /\ [](\A t \in Threads :
            /\ \A i \in 2..Len(scan[t].visited) :
                 scan[t].stopRow # <<>>
                 => BytesCompare(RegionNamed(scan[t].visited[i]).start, scan[t].stopRow) < 0
            /\ ScanSucceeded(t)
                 => \/ LastStop(t) = <<>>
                    \/ (scan[t].stopRow # <<>>
                          /\ BytesCompare(scan[t].stopRow, LastStop(t)) <= 0))

\* the scan of ["", "n") has gone on after the regions ["", "d") and
\* ["d", "m") and has returned after the region ["m", "")
C11_Witness ==
    /\ ScanSucceeded(1)
    /\ scan[1].startRow = <<>> /\ scan[1].stopRow = <<110>>
    /\ Len(scan[1].visited) = 3

\* goroutine t's Scan issues a call: it enters sendRPC
Issues(t) == pc[t] # "getRegion" /\ pc'[t] = "getRegion" /\ op'[t] = "scan"

\* sendRPC has returned to goroutine t's Scan the response of a scan-open
\* or of a fetch, without error
Fetched(t) ==
    /\ pc[t] = "ret" /\ op[t] = "scan"
    /\ rpc[t].kind \in {"scanOpen", "scanNext"}
    /\ ret[t].err = "nil"

\* C12: Scan issues a call only when the previous one has returned. A
\* scan-open is the first call or follows a close; a fetch by scanner id
\* follows a response of that scanner that had rows; the close follows a
\* response of that scanner that had no rows. After a response with rows
\* Scan does nothing but fetch again, after a response without rows nothing
\* but close, and after the close nothing but open the next region or
\* return: one open and one close per region, the fetches between them.
C12_ScanCallOrder ==
    [][\A t \in Threads :
         /\ Issues(t)
              => /\ pc[t] \in {"idle", "ret"}
                 /\ rpc'[t].kind = "scanOpen"
                      => (pc[t] = "idle" \/ rpc[t].kind = "scanClose")
                 /\ rpc'[t].kind = "scanNext"
                      => /\ Fetched(t) /\ ret[t].msg.rows # <<>>
                         /\ rpc'[t].id = ret[t].msg.id /\ rpc'[t].key = rpc[t].key
                 /\ rpc'[t].kind = "scanClose"
                      => /\ Fetched(t) /\ ret[t].msg.rows = <<>>
                         /\ rpc'[t].id = ret[t].msg.id /\ rpc'[t].key = rpc[t].key
         /\ (Fetched(t) /\ pc'[t] # "ret")
              => /\ Issues(t)
                 /\ rpc'[t].kind = IF ret[t].msg.rows # <<>> THEN "scanNext" ELSE "scanClose"
         /\ (pc[t] = "ret" /\ op[t] = "scan" /\ rpc[t].kind = "scanClose" /\ pc'[t] # "ret")
              => \/ Issues(t) /\ rpc'[t].kind = "scanOpen"
                 \/ scan'[t].phase = "done"]_vars

\* Scan has paged the rows "a" and "b" of the region ["", "d"), closed its
\* scanner and issues the scan-open of the next region
C12_Witness ==
    /\ pc[1] = "getRegion" /\ rpc[1].kind = "scanOpen"
    /\ scan[1].visited = <<RegionNameOf(TableT, <<>>)>>
    /\ scan[1].results = <<<<97>>, <<98>>>>
    /\ \E i \in 1..Len(scanners) :
         scanners[i].region = RegionNameOf(TableT, <<>>) /\ ~scanners[i].open

\* C5: a Scan one of whose calls failed (the scan-open, a fetch or the
\* close of a scanner) returns an error, never a nil error with rows.
C5_ScanSurfacesFailures ==
    \A t \in Threads : (scan[t].phase = "done" /\ scan[t].failed) => out[t].err # "nil"

(***************************************************************************)
(* Scan under a fair scheduler, every call answered.                       *)
(***************************************************************************)
\* the positions of a goroutine in Get, Scan, queueRPC and sendRPC
PcValues ==
    {"idle", "getRegion", "krcGetUnlock", "clientFor", "rccGetUnlock", "locateRegion",
     "locateMeta", "metaNewClient", "metaSend", "metaWait", "discover", "newRegion",
     "rccPut", "rccPutUnlock", "krcPut", "krcPutUnlock", "queue", "select", "ret",
     "panic"}

\* goroutine t has a statement to execute: it is in an operation, not
\* blocked in the meta query, and not blocked in sendRPC's select (a case
\* of the select is ready)
Ready(t) ==
    /\ Alive
    /\ pc[t] \notin {"idle", "metaWait"}
    /\ pc[t] = "select" => (resch[t] # <<>> \/ ctxDone[t])

\* goroutine t executes a statement: it moves to another position
Runs(t) == Ready(t) /\ \E p \in PcValues \ {pc[t]} : pc' = [pc EXCEPT ![t] = p]

\* one goroutine scanning: a goroutine that has a statement to execute
\* executes one, the meta connection answers every query and the region
\* servers every call of the scan (with an error or a result); the caller
\* is free to cancel or not
SpecScanFair ==
    /\ Init /\ [][NextScan]_vars
    /\ WF_pc(Runs(1))
    /\ WF_vars(MetaRespond(1))
    /\ WF_vars(RespondScan(1))

\* goroutine t is in a Scan that has not returned
Scanning(t) == op[t] = "scan"

\* the start keys of the regions goroutine t's Scan has opened strictly
\* increase
VisitedAscend(t) ==
    \A i \in 2..Len(scan[t].visited) :
        BytesCompare(RegionNamed(scan[t].visited[i - 1]).start,
                     RegionNamed(scan[t].visited[i]).start) < 0

\* goroutine t's discovery works on a meta row that has no regioninfo
\* cell: the row has been answered, or discoverRegion has left reg nil
NoRegionInfo(t) ==
    \/ /\ pc[t] = "discover" /\ metaResp[t].hasResult
       /\ \A i \in 1..Len(metaResp[t].cells) : metaResp[t].cells[i].q # "regioninfo"
    \/ /\ pc[t] \in {"newRegion", "rccPut", "rccPutUnlock", "panic"}
       /\ reg[t] = NIL

\* C20: over the three regions of the table (stop keys "d" < "m", the last
\* one empty), with every call answered and scanners that run out of rows,
\* every Scan returns, for every startRow and stopRow, unless meta answers
\* with a row that has no regioninfo cell; and the regions a Scan opens have
\* strictly increasing start keys.
C20_ScanTerminates ==
    /\ Scanning(1) ~> (scan[1].phase = "done" \/ NoRegionInfo(1))
    /\ [](\A t \in Threads : VisitedAscend(t))

\* the scan of the whole table has returned after opening its three regions
C20_Witness ==
    /\ scan[1].phase = "done"
    /\ scan[1].startRow = <<>> /\ scan[1].stopRow = <<>>
    /\ Len(scan[1].visited) = 3
    /\ VisitedAscend(1)

(***************************************************************************)
(* The two caches exercised alone, by one goroutine: addRegionToCache and  *)
(* getRegion as whole calls, over regions of two tables "t" and "tb", two  *)
(* daughters of a split of ["d", "m") and a region whose name has no comma.*)
(***************************************************************************)
\* "tb"
TableTB == <<116, 98>>

RegionPool ==
    {[Table |-> TableT, RegionName |-> RegionNameOf(TableT, <<>>), StopKey |-> <<100>>],
     [Table |-> TableT, RegionName |-> RegionNameOf(TableT, <<100>>), StopKey |-> <<109>>],
     [Table |-> TableT, RegionName |-> RegionNameOf(TableT, <<109>>), StopKey |-> <<>>],
     [Table |-> TableT, RegionName |-> TableT \o <<Comma, 100, Comma, 50>>,
      StopKey |-> <<100, 33>>],
     [Table |-> TableT, RegionName |-> RegionNameOf(TableT, <<100, 33>>),
      StopKey |-> <<109>>],
     [Table |-> TableTB, RegionName |-> RegionNameOf(TableTB, <<>>), StopKey |-> <<>>],
     [Table |-> TableT, RegionName |-> TableT, StopKey |-> <<>>]}

\* "a", "d", "d!", "e", "m", "z"
LookupKeys == {<<97>>, <<100>>, <<100, 33>>, <<101>>, <<109>>, <<122>>}
LookupTables == {TableT, TableTB, metaTableName}

\* addRegionToCache(reg, client) for a region just decoded and a connection
\* just constructed, up to the return of c.clients.put: the connection is
\* registered, the region not yet in the index, no lock held
IdxAdd(ri) ==
    /\ At(1, "idle")
    /\ Cardinality(DOMAIN infos) <= MaxPuts
    /\ LET r == NewInfoId(1, Cardinality(DOMAIN infos), 0)
           c == NewConnId(1, Cardinality(DOMAIN infos), 0)
       IN  /\ infos' = (r :> ri) @@ infos
           /\ conns' = (c :> [kind |-> "region", by |-> 1, call |-> ops[1], reg |-> r]) @@ conns
           /\ clients' = (r :> c) @@ clients
           /\ reg' = [reg EXCEPT ![1] = r]
    /\ op' = [op EXCEPT ![1] = "add"]
    /\ pc' = [pc EXCEPT ![1] = "krcPut"]
    /\ rpc' = [rpc EXCEPT ![1] = NoCall]
    /\ found' = [found EXCEPT ![1] = NoFound]
    /\ UNCHANGED <<regions, allocs, locks, meta, view, ops, client, metaResp, addr, sent,
                   resch, ctxDone, ret, scan, scanners, out>>

\* the rest of addRegionToCache: c.regions.put of the region under its name
IdxAddRegion ==
    /\ At(1, "krcPut")
    /\ op[1] = "add"
    /\ regions' = TreePut(regions, infos[reg[1]].RegionName, reg[1]).tree
    /\ reg' = [reg EXCEPT ![1] = NIL]
    /\ pc' = [pc EXCEPT ![1] = "idle"]
    /\ UNCHANGED <<clients, infos, conns, allocs, locks, meta, view, op, ops, rpc, client,
                   found, metaResp, addr, sent, resch, ctxDone, ret, scan, scanners, out>>

\* getRegion(table, key); found keeps what c.regions.get returned to it
IdxLookup(table, key) ==
    /\ At(1, "idle")
    /\ LET f == krcGet(regions, createRegionSearchKey(table, key))
           r == getRegion(regions, infos, table, key)
       IN  /\ found' = [found EXCEPT ![1] = IF table = metaTableName THEN NoFound ELSE f]
           /\ reg' = [reg EXCEPT ![1] = r.reg]
           /\ pc' = [pc EXCEPT ![1] = IF r.panic THEN "panic" ELSE "idle"]
    /\ op' = [op EXCEPT ![1] = "lookup"]
    /\ rpc' = [rpc EXCEPT ![1] = NewCall("get", table, key, <<>>, <<>>, 0)]
    /\ UNCHANGED <<caches, locks, meta, view, ops, client, metaResp, addr, sent, resch,
                   ctxDone, ret, scan, scanners, out>>

NextIndex ==
    \/ \E ri \in RegionPool : IdxAdd(ri)
    \/ IdxAddRegion
    \/ \E table \in LookupTables, key \in LookupKeys : IdxLookup(table, key)

\* the caches alone
SpecIndex == Init /\ [][NextIndex]_vars

(***************************************************************************)
(* Properties of the caches.                                               *)
(***************************************************************************)
\* the floor of sk in the tree: the item with the greatest key <= sk
Floor(tree, sk) ==
    LET le == {i \in 1..Len(tree) : BytesCompare(tree[i].k, sk) <= 0}
    IN  IF le = {} THEN NoFound
        ELSE LET i == CHOOSE j \in le :
                        \A m \in le : BytesCompare(tree[m].k, tree[j].k) <= 0
             IN  [k |-> tree[i].k, v |-> tree[i].v]

\* the keys looked up: every search key of a lookup and every stored key
SearchKeys ==
    {createRegionSearchKey(table, key) : table \in {TableT, TableTB}, key \in LookupKeys}
    \cup {ri.RegionName : ri \in RegionPool}

IsPrefix(p, b) == Len(p) <= Len(b) /\ SubSeq(b, 1, Len(p)) = p

\* C7: after any sequence of puts, keyRegionCache.get(searchKey) returns the
\* entry with the greatest stored key <= searchKey in byte order (the last
\* entry when searchKey is past every stored key) and nothing exactly when the
\* index is empty or searchKey sorts before the first stored key.
C7_GetIsFloor ==
    \A sk \in SearchKeys :
        /\ krcGet(regions, sk) = Floor(regions, sk)
        /\ (krcGet(regions, sk).v = NIL) <=>
              (regions = <<>> \/ BytesCompare(sk, regions[1].k) < 0)

\* a lookup past every stored key of an index of two entries or more
\* returned the last entry
C7_Witness ==
    /\ op[1] = "lookup"
    /\ Len(regions) >= 2
    /\ BytesCompare(createRegionSearchKey(rpc[1].table, rpc[1].key),
                    regions[Len(regions)].k) > 0
    /\ found[1].v = regions[Len(regions)].v

\* C8: getRegion returns a region only if the index key it was found under
\* starts with the table name followed by ',' (so that the region is one of
\* that table) and the region's stop key is empty or strictly greater than
\* the key.
C8_HitIsForTableAndRange ==
    \A table \in {TableT, TableTB}, key \in LookupKeys :
        LET f == krcGet(regions, createRegionSearchKey(table, key))
            r == getRegion(regions, infos, table, key)
        IN  r.reg # NIL =>
              /\ r.reg = f.v
              /\ IsPrefix(table \o <<Comma>>, f.k)
              /\ infos[r.reg].Table = table
              /\ \/ infos[r.reg].StopKey = <<>>
                 \/ BytesCompare(key, infos[r.reg].StopKey) < 0

\* a lookup for table "tb" fell on an entry of table "t" and one for a key
\* equal to the stop key fell on that region: both were misses
C8_Witness ==
    /\ op[1] = "lookup"
    /\ found[1].v # NIL
    /\ reg[1] = NIL
    /\ pc[1] = "idle"
    /\ \/ rpc[1].table = TableTB /\ infos[found[1].v].Table = TableT
       \/ rpc[1].table = TableT /\ infos[found[1].v].Table = TableT
            /\ rpc[1].key = infos[found[1].v].StopKey

\* the region name is table "," start "," id
WellNamed(ri) ==
    /\ IsPrefix(ri.Table \o <<Comma>>, ri.RegionName)
    /\ \E i \in (Len(ri.Table) + 2)..Len(ri.RegionName) : ri.RegionName[i] = Comma

\* the start key in the name of a region: what lies between the comma after
\* the table and the last comma
StartOf(ri) ==
    LET last == CHOOSE i \in 1..Len(ri.RegionName) :
                    /\ ri.RegionName[i] = Comma
                    /\ \A j \in (i + 1)..Len(ri.RegionName) : ri.RegionName[j] # Comma
    IN  SubSeq(ri.RegionName, Len(ri.Table) + 2, last - 1)

\* two regions of one table whose ranges share a key
Overlap(a, b) ==
    /\ a.Table = b.Table
    /\ (b.StopKey = <<>> \/ BytesCompare(StartOf(a), b.StopKey) < 0)
    /\ (a.StopKey = <<>> \/ BytesCompare(StartOf(b), a.StopKey) < 0)

\* the regions in the index are well named and no two of them overlap
IndexConsistent ==
    /\ \A r \in Indexed : WellNamed(infos[r])
    /\ \A q, r \in Indexed : q # r => ~Overlap(infos[q], infos[r])

\* every key of table in the range of an indexed region among those of
\* keys resolves, in the cache, to that region and its connection
HitsIn(keys) ==
    \A r \in Indexed : \A key \in keys :
        InRange(key, StartOf(infos[r]), infos[r].StopKey)
        => LET g == getRegion(regions, infos, infos[r].Table, key)
           IN  /\ ~g.panic /\ g.reg = r
               /\ r \in DOMAIN clients /\ clients[r] # NIL
               /\ conns[clients[r]].reg = r

\* C18: with the regions published in the index not overlapping, every key
\* in the range of one of them resolves in the cache to that region and the
\* connection registered for it (so queueRPC does not call locateRegion).
C18_KeyInRangeHits ==
    IndexConsistent => HitsIn(LookupKeys)

\* no byte of b sorts below ','
NoLowByte(b) == \A i \in 1..Len(b) : b[i] >= Comma

\* the same for the keys, and the regions with start keys, that have no
\* byte below ','
KeyInRangeHitsAboveComma ==
    (IndexConsistent /\ \A r \in Indexed : NoLowByte(StartOf(infos[r])))
    => HitsIn({key \in LookupKeys : NoLowByte(key)})

(***************************************************************************)
(* discoverRegion on every meta row: one goroutine whose meta query has    *)
(* just been answered, with a row whose info:server value is any byte      *)
(* string of at most MaxServerLen bytes over 'h', ':', '0' and '7'.        *)
(***************************************************************************)
ServerAlphabet == {104, Colon, 48, 55}

\* the rows with the info:server value v: regioninfo before it, after it, or
\* missing; and the row with regioninfo alone
ParseRows(v) ==
    LET ri == Cell("regioninfo",
                   [ok |-> TRUE, Table |-> TableT,
                    RegionName |-> RegionNameOf(TableT, <<>>), StopKey |-> <<100>>],
                   <<>>)
    IN  {MetaRow(<<ri, Cell("server", NoInfo, v)>>),
         MetaRow(<<Cell("server", NoInfo, v), ri>>),
         MetaRow(<<Cell("server", NoInfo, v)>>),
         MetaRow(<<ri>>)}

\* goroutine 1 in Get("t", "a") on a client whose meta connection it has
\* established, back from c.metaClient.SendRPC with a row
InitParse ==
    /\ regions = <<>>
    /\ krcLock = NIL
    /\ clients = <<>>
    /\ rccLock = NIL
    /\ metaClient = NewConnId(1, 1, 0)
    /\ metaWrites = <<[by |-> NIL, val |-> NIL], [by |-> 1, val |-> NewConnId(1, 1, 0)]>>
    /\ view = [t \in Threads |-> IF t = 1 THEN 2 ELSE 1]
    /\ krcView = 1
    /\ rccView = 1
    /\ infos = (MetaInfoId :> metaRegionInfo)
    /\ conns = (NewConnId(1, 1, 0) :> [kind |-> "meta", by |-> 1, call |-> 1, reg |-> MetaInfoId])
    /\ allocs = [t \in Threads |-> [info |-> 0, conn |-> IF t = 1 THEN 1 ELSE 0]]
    /\ pc = [t \in Threads |-> IF t = 1 THEN "discover" ELSE "idle"]
    /\ op = [t \in Threads |-> IF t = 1 THEN "call" ELSE "none"]
    /\ ops = [t \in Threads |-> IF t = 1 THEN 1 ELSE 0]
    /\ rpc = [t \in Threads |->
                IF t = 1 THEN NewCall("get", TableT, <<97>>, <<>>, <<>>, 0) ELSE NoCall]
    /\ reg = [t \in Threads |-> NIL]
    /\ client = [t \in Threads |-> NIL]
    /\ found = [t \in Threads |-> NoFound]
    /\ \E n \in 0..MaxServerLen :
         \E v \in [1..n -> ServerAlphabet] :
           \E row \in ParseRows(v) :
             metaResp = [t \in Threads |-> IF t = 1 THEN row ELSE MetaNotFound]
    /\ addr = [t \in Threads |-> NoAddr]
    /\ sent = [t \in Threads |-> NIL]
    /\ resch = [t \in Threads |-> <<>>]
    /\ ctxDone = [t \in Threads |-> FALSE]
    /\ ret = [t \in Threads |-> NoResult]
    /\ scan = [t \in Threads |-> NoScan]
    /\ scanners = <<>>
    /\ out = [t \in Threads |-> NoResult]

NextParse ==
    \/ Discover(1) \/ NewRegion(1)
    \/ RccPut(1) \/ RccPutUnlock(1) \/ KrcPut(1) \/ KrcPutUnlock(1)

\* discoverRegion over all info:server values
SpecParse == InitParse /\ [][NextParse]_vars

\* the value of a string of decimal digits
RECURSIVE DigitsValue(_)
DigitsValue(s) ==
    IF s = <<>> THEN 0 ELSE 10 * DigitsValue(SubSeq(s, 1, Len(s) - 1)) + (s[Len(s)] - 48)

\* v is host:port, a non-empty host without colon and a decimal port that
\* fits 16 bits
WellFormedServer(v) ==
    \E c \in 2..(Len(v) - 1) :
        /\ v[c] = Colon
        /\ \A i \in 1..(c - 1) : v[i] # Colon
        /\ \A i \in (c + 1)..Len(v) : IsDigit(v[i])
        /\ DigitsValue(SubSeq(v, c + 1, Len(v))) < 65536

\* the row has an info:server cell whose value is neither empty nor well formed
MalformedServerRow(row) ==
    \E i \in 1..Len(row.cells) :
        /\ row.cells[i].q = "server"
        /\ row.cells[i].value # <<>>
        /\ ~WellFormedServer(row.cells[i].value)

\* C9: when the info:server value is non-empty and has no colon, starts with
\* the colon, or has a port that is not a decimal number of 16 bits,
\* discoverRegion returns an error: it constructs no connection, puts
\* nothing into either cache and returns no region.
C9_MalformedServerFails ==
    [][\A t \in Threads :
         (pc[t] = "discover" /\ metaResp[t].err = "nil" /\ MalformedServerRow(metaResp[t])
            /\ pc'[t] # "discover")
         => /\ pc'[t] = "ret"
            /\ ret'[t].msg = NoMsg
            /\ ret'[t].err \in {"broken meta", "ParseUint: invalid syntax",
                                "ParseUint: value out of range"}
            /\ reg'[t] = NIL /\ client'[t] = NIL
            /\ UNCHANGED <<regions, clients, infos, conns>>]_vars

\* discoverRegion has returned the range error of a port above 65535, with
\* both caches empty and no connection but the meta connection
C9_Witness ==
    /\ pc[1] = "ret"
    /\ ret[1].err = "ParseUint: value out of range"
    /\ regions = <<>> /\ clients = <<>>
    /\ DOMAIN conns = {NewConnId(1, 1, 0)}

\* the row has an info:server cell whose value is empty
EmptyServerRow(row) ==
    /\ row.hasResult
    /\ \E i \in 1..Len(row.cells) : row.cells[i].q = "server" /\ row.cells[i].value = <<>>

\* the row lacks the regioninfo column or the server column
MissingColumnRow(row) ==
    /\ row.hasResult
    /\ \/ \A i \in 1..Len(row.cells) : row.cells[i].q # "regioninfo"
       \/ \A i \in 1..Len(row.cells) : row.cells[i].q # "server"

\* discoverRegion returns an error from its parsing of the row, having
\* constructed no connection and put nothing into either cache
DiscoverFails(t) ==
    /\ pc'[t] = "ret"
    /\ ret'[t].err \notin {"nil", "none"} /\ ret'[t].msg = NoMsg
    /\ UNCHANGED <<regions, clients, conns>>

\* C16: when the row's info:server value is empty, discoverRegion returns
\* an error: newRegion is not called (with host "" and port 0) and nothing
\* is put into the registry or the index.
C16_EmptyServerFails ==
    [][\A t \in Threads :
         (pc[t] = "discover" /\ metaResp[t].err = "nil" /\ EmptyServerRow(metaResp[t])
            /\ pc'[t] # "discover")
         => DiscoverFails(t)]_vars

\* C17: when the row lacks the regioninfo or the server column,
\* discoverRegion returns an error, with nothing put into either cache;
\* and no goroutine panics.
C17_MissingColumnFails ==
    /\ [](\A t \in Threads : pc[t] # "panic")
    /\ [][\A t \in Threads :
            (pc[t] = "discover" /\ metaResp[t].err = "nil"
               /\ MissingColumnRow(metaResp[t]) /\ pc'[t] # "discover")
            => DiscoverFails(t)]_vars

====
